---- MODULE Spec2Model ----
(***************************************************************************)
(* URL ping monitor (src/app.py): the persisted registry urls.json, the    *)
(* in-memory live-entry map active_monitors, the global stop_event, the    *)
(* ping_worker threads, the Flask request handlers (threaded=True, so      *)
(* handlers interleave at every access to shared state), initialize_app    *)
(* and the atexit hook stop_all_monitors.                                  *)
(***************************************************************************)
EXTENDS Integers, Sequences, FiniteSets, Bags, TLC

\* ------------------------------------------------------------------ bounds
\* Worker threads alive at the same time (threading.Thread objects).
MaxWorkers == 2
\* Wait slices per interval minute; the code uses 60 * 10 = 600 (app.py:103).
SliceScale == 1
\* Target ids that can occur in urls.json or in a request path.
Ids == {"u1", "u2"}
\* The id the concurrent requests name (registered or not, as urls.json has it).
RequestIds == {"u1"}
\* Seconds the clock can advance while requests are served.
MaxClock == 1
\* Request threads of the threaded Flask server.
Threads == {"p1", "p2"}
\* The url registered under each id.
UrlOf == [t \in Ids |-> IF t = "u1" THEN "http://a" ELSE "http://b"]

\* ------------------------------------------------------- program constants
\* load_urls / save_urls default for a missing 'interval' field.
DefaultInterval == 5

\* ------------------------------------------------------------ dictionaries
EmptyDict == << >>
Put(d, k, v) == [x \in (DOMAIN d) \cup {k} |-> IF x = k THEN v ELSE d[x]]
Del(d, k) == [x \in (DOMAIN d) \ {k} |-> d[x]]
Get(r, f, default) == IF f \in DOMAIN r THEN r[f] ELSE default

\* A json value that is not an object is modelled as a record with the single
\* field "scalar"; isinstance(url_data, dict) is false for it.
IsDict(r) == "scalar" \notin DOMAIN r

\* The record load_urls and save_urls build for one id.
CleanRecord(url_id, r) ==
    [id |-> url_id,
     url |-> Get(r, "url", ""),
     interval |-> Get(r, "interval", DefaultInterval),
     monitoring |-> Get(r, "monitoring", FALSE)]

\* ------------------------------------------------------------------- state
VARIABLES
    file,             \* urls.json: [state: "missing"|"corrupt"|"ok", data: dict]
    active_monitors,  \* dict url_id -> [active, url, interval]
    stop_event,       \* threading.Event: is_set()
    workers,          \* the running ping_worker threads (a bag of their states)
    init_pc,          \* position of initialize_app
    init_data,        \* its local urls_data
    init_todo,        \* ids its for loop has not visited yet
    pc,               \* position of each request thread
    arg,              \* the url_id of the request it serves
    ctx,              \* history: how the request in flight has been served so far
    urls_data,        \* the handler's local urls_data
    atexit_pc,        \* position of stop_all_monitors (atexit hook)
    last,             \* the most recent response sent by any handler
    stopped,          \* history: per id, whether a stop has returned with no
                      \* start requested since ("clean", or "raced" with a start)
    pending,          \* the requests the clients have yet to send
    arrival,          \* history: whether the observed id a stop in flight asks
                      \* for had a record when the request arrived
    now,              \* int(time.time()): the clock, in whole seconds
    probe_log,        \* history: per observed id, how its most recent probe ended
    roundtrip,        \* a load_urls / save_urls / load_urls sequence on urls.json
    api_file,         \* the urls.json of src/API/index.py (not cleaned on load)
    api_req           \* the request src/API/index.py is serving

vars == <<file, active_monitors, stop_event, workers, init_pc, init_data,
          init_todo, pc, arg, ctx, urls_data, atexit_pc, last, stopped,
          pending, arrival, now, probe_log, roundtrip, api_file, api_req>>

shared == <<file, active_monitors, stop_event, workers>>
initvars == <<init_pc, init_data, init_todo>>
reqvars == <<pc, arg, ctx, urls_data, last, stopped, pending, arrival>>
\* the clock, the round-trip exercise and the API variant of the program
envvars == <<now, roundtrip, api_file, api_req>>
auxvars == <<envvars, probe_log>>

\* ---------------------------------------------------------------- storage
\* load_urls: {} when the file is missing or json.load raises; otherwise the
\* cleaned mapping, which drops every entry that is not an object.
load_urls(f) ==
    IF f.state # "ok" THEN EmptyDict
    ELSE [k \in {x \in DOMAIN f.data : IsDict(f.data[x])} |->
             CleanRecord(k, f.data[k])]

\* (mutant) save_urls writes the records without their 'monitoring' field
SavedFileNoFlag(d) ==
    [state |-> "ok",
     data |-> [k \in DOMAIN d |->
                 [id |-> k, url |-> Get(d[k], "url", ""),
                  interval |-> Get(d[k], "interval", DefaultInterval)]]]

\* What save_urls writes when the write succeeds.
SavedFile(d) == [state |-> "ok", data |-> [k \in DOMAIN d |-> CleanRecord(k, d[k])]]

\* save_urls: either the file is rewritten and True is returned, or open()
\* raises (read-only or full file system), the file keeps its content and
\* False is returned.
save_urls(d, ok) == IF ok THEN SavedFile(d) ELSE file

\* ----------------------------------------------------------------- workers
\* threading.Thread(target=ping_worker, args=(url_id, url, interval)).start()
NewWorker(url_id, url_info) ==
    [url_id |-> url_id, url |-> url_info.url, interval |-> url_info.interval,
     pc |-> "loop", left |-> 0, seen |-> FALSE]

\* the entry start_monitoring_thread stores in active_monitors
NewEntry(url_info) ==
    [active |-> TRUE, url |-> url_info.url, interval |-> url_info.interval]

\* (mutant) the worker looks at the stop event only
CancelledEventOnly(w) == stop_event

\* (mutant) the worker looks at active_monitors only
CancelledIdOnly(w) == w.url_id \notin DOMAIN active_monitors

\* stop_event.is_set() or url_id not in active_monitors
Cancelled(w) == stop_event \/ w.url_id \notin DOMAIN active_monitors

\* number of iterations of the wait loop: range(interval * 60 * 10)
WaitSlices(interval) == interval * SliceScale

\* while not stop_event.is_set() and url_id in active_monitors:
\* The threads are told apart only by what they run, so the thread list is a
\* bag of worker states. One thread in state w moves on to state v, or
\* returns from ping_worker.
Moves(w, v) == (workers (-) SetToBag({w})) (+) SetToBag({v})
Exits(w) == workers (-) SetToBag({w})
Launched(w) == workers (+) SetToBag({w})

\* the number of threads that run ping_worker for url_id
WorkersOf(url_id) ==
    BagCardinality([w \in {x \in BagToSet(workers) : x.url_id = url_id} |-> workers[w]])

\* while not stop_event.is_set() and url_id in active_monitors:
WorkerLoop(w) ==
    /\ BagIn(w, workers)
    /\ w.pc = "loop"
    /\ workers' = IF Cancelled(w) THEN Exits(w) ELSE Moves(w, [w EXCEPT !.pc = "probe"])
    /\ UNCHANGED <<file, active_monitors, stop_event, initvars, reqvars, atexit_pc, auxvars>>

\* requests.get inside try/except: a response, a RequestException and any
\* other Exception all fall through to the wait loop.
ProbeOutcomes == {"response", "request_exception", "exception"}

\* history: the outcome is noted for the ids under observation
Observed(url_id, outcome) ==
    IF url_id \in DOMAIN probe_log THEN [probe_log EXCEPT ![url_id] = outcome]
    ELSE probe_log

\* (mutant) only RequestException is caught: any other exception ends the thread
WorkerProbeUncaught(w) ==
    /\ BagIn(w, workers)
    /\ w.pc = "probe"
    /\ \E outcome \in ProbeOutcomes :
          /\ workers' = IF outcome = "exception" THEN Exits(w)
                         ELSE Moves(w, [w EXCEPT !.pc = "wait", !.left = WaitSlices(w.interval)])
          /\ probe_log' = Observed(w.url_id, outcome)
    /\ UNCHANGED <<file, active_monitors, stop_event, initvars, reqvars, atexit_pc, envvars>>

WorkerProbe(w) ==
    /\ BagIn(w, workers)
    /\ w.pc = "probe"
    /\ \E outcome \in ProbeOutcomes :
          /\ workers' = Moves(w, [w EXCEPT !.pc = "wait", !.left = WaitSlices(w.interval)])
          /\ probe_log' = Observed(w.url_id, outcome)
    /\ UNCHANGED <<file, active_monitors, stop_event, initvars, reqvars, atexit_pc, envvars>>

\* for _ in range(...): if cancelled: break; time.sleep(0.1)
\* History, for the ids under observation: seen tells that this thread has
\* found itself cancelled at line 104.
WorkerWait(w) ==
    /\ BagIn(w, workers)
    /\ w.pc = "wait"
    /\ workers' =
         IF w.left = 0
         THEN Moves(w, [w EXCEPT !.pc = "loop"])
         ELSE IF Cancelled(w)
         THEN Moves(w, [w EXCEPT !.pc = "loop", !.left = 0,
                                 !.seen = w.url_id \in DOMAIN probe_log])
         ELSE Moves(w, [w EXCEPT !.left = w.left - 1])
    /\ UNCHANGED <<file, active_monitors, stop_event, initvars, reqvars, atexit_pc, auxvars>>

\* ---------------------------------------------------------- initialize_app
\* if not os.path.exists(URLS_FILE): json.dump({}, f); urls_data = load_urls()
InitLoad ==
    /\ init_pc = "load"
    /\ file' = IF file.state = "missing" THEN [state |-> "ok", data |-> EmptyDict]
               ELSE file
    /\ init_data' = load_urls(file')
    /\ init_todo' = DOMAIN init_data'
    /\ init_pc' = "loop"
    /\ UNCHANGED <<active_monitors, stop_event, workers, reqvars, atexit_pc, auxvars>>

\* (mutant) start-up launches a worker for every record, monitored or not
InitStepAll ==
    /\ init_pc = "loop"
    /\ init_todo # {}
    /\ \E t \in init_todo :
          /\ init_todo' = init_todo \ {t}
          /\ active_monitors' = Put(active_monitors, t, NewEntry(init_data[t]))
          /\ workers' = Launched(NewWorker(t, init_data[t]))
    /\ UNCHANGED <<file, stop_event, init_pc, init_data, reqvars, atexit_pc, auxvars>>

\* one iteration of: for url_id, url_info in urls_data.items():
\*     if url_info.get('monitoring', False): start_monitoring_thread(...)
\* No other thread writes active_monitors before the server runs, so the
\* check and the insertion of start_monitoring_thread are one step here.
InitStep ==
    /\ init_pc = "loop"
    /\ init_todo # {}
    /\ \E t \in init_todo :
          /\ init_todo' = init_todo \ {t}
          /\ IF init_data[t].monitoring = TRUE /\ t \notin DOMAIN active_monitors
             THEN /\ active_monitors' = Put(active_monitors, t, NewEntry(init_data[t]))
                  /\ workers' = Launched(NewWorker(t, init_data[t]))
             ELSE UNCHANGED <<active_monitors, workers>>
    /\ UNCHANGED <<file, stop_event, init_pc, init_data, reqvars, atexit_pc, auxvars>>

\* the loop is exhausted: atexit.register(stop_all_monitors), then serve
InitDone ==
    /\ init_pc = "loop"
    /\ init_todo = {}
    /\ init_pc' = "done"
    /\ init_data' = EmptyDict
    /\ UNCHANGED <<shared, init_todo, reqvars, atexit_pc, auxvars>>

\* ------------------------------------------------------- request handlers
StartLabels == {"start_check", "start_set", "start_launch", "start_save"}
StopLabels == {"stop_del", "stop_load", "stop_save"}

\* starts in flight that have not launched their thread yet
StartsInFlight ==
    Cardinality({q \in Threads : pc[q] \in {"start_check", "start_set", "start_launch"}})

\* a start of url_id t is being served
StartInFlight(t) == \E q \in Threads : pc[q] \in StartLabels /\ arg[q] = t

NoResponse ==
    [op |-> "none", arg |-> "none", result |-> "none", ctx |-> "none"]

\* History of how a request was served, kept per request in ctx:
\*   "after_stop"  no other request and no exit hook ran while it was served,
\*                 and it arrived right after the response to such a stop of
\*                 the same id
\*   "alone"       no other request and no exit hook ran while it was served
\*   "raced"       a stop during which a start of the same id was in flight
\*   "overlapped"  anything else
AloneNow(p) == atexit_pc = "idle" /\ \A q \in Threads \ {p} : pc[q] = "idle"

FollowsStop(t) ==
    /\ last.op = "stop" /\ last.arg = t /\ last.result = "stopped"
    /\ last.ctx \in {"alone", "after_stop"}

ArrivalCtx(p, o, t) ==
    IF AloneNow(p)
    THEN IF o \in {"start", "stop"} /\ FollowsStop(t) THEN "after_stop" ELSE "alone"
    ELSE IF o = "stop" /\ StartInFlight(t) THEN "raced" ELSE "overlapped"

\* what the arrival of a request o for t makes of the requests in flight
Disturbed(q, o, t, inflight) ==
    IF pc[q] = "idle" THEN "none"
    ELSE IF ctx[q] = "raced" \/ (o = "start" /\ inflight /\ pc[q] \in StopLabels /\ arg[q] = t)
         THEN "raced"
         ELSE "overlapped"

\* The clients' workload: the requests yet to be sent. AnyRequest stands for
\* clients that may send any request at any time.
NoInterval == [kind |-> "absent", val |-> 0]
AnyRequest == [op |-> "any", arg |-> "any", interval |-> NoInterval]
Request(o, t) == [op |-> o, arg |-> t, interval |-> NoInterval]
Sent(r) == AnyRequest \in pending \/ r \in pending
Arrives(r) == Sent(r) /\ pending' = pending \ {r}

\* what a stop of an observed id finds in the registry as it arrives
ArrivalOf(o, t) ==
    IF o = "stop" /\ t \in DOMAIN probe_log
    THEN IF t \in DOMAIN load_urls(file) THEN "registered" ELSE "absent"
    ELSE "none"

\* A request thread picks up a request o for url_id t and goes on to label.
Begin(p, o, t, label) ==
    /\ init_pc = "done"
    /\ pc[p] = "idle"
    /\ Arrives(Request(o, t))
    /\ pc' = [pc EXCEPT ![p] = label]
    /\ arg' = [arg EXCEPT ![p] = t]
    /\ ctx' = [q \in Threads |-> IF q = p THEN ArrivalCtx(p, o, t)
                                 ELSE Disturbed(q, o, t, TRUE)]
    /\ stopped' = IF o = "start" THEN [stopped EXCEPT ![t] = "no"] ELSE stopped
    /\ arrival' = [arrival EXCEPT ![p] = ArrivalOf(o, t)]
    /\ UNCHANGED last

\* The served request o answers r. The handler's locals die.
Respond(p, o, t, c, r) ==
    /\ pc' = [pc EXCEPT ![p] = "idle"]
    /\ arg' = [arg EXCEPT ![p] = "none"]
    /\ urls_data' = [urls_data EXCEPT ![p] = EmptyDict]
    /\ last' = [op |-> o, arg |-> t, result |-> r, ctx |-> c]
    /\ arrival' = [arrival EXCEPT ![p] = "none"]
    /\ stopped' = IF o = "stop" /\ r = "stopped"
                  THEN [stopped EXCEPT ![t] = IF c = "raced" THEN "raced" ELSE "clean"]
                  ELSE IF o = "start" THEN [stopped EXCEPT ![t] = "no"]
                  ELSE stopped

Return(p, o, r) ==
    /\ Respond(p, o, arg[p], ctx[p], r)
    /\ ctx' = [ctx EXCEPT ![p] = "none"]
    /\ UNCHANGED pending

Stay(p, label) ==
    /\ pc' = [pc EXCEPT ![p] = label]
    /\ UNCHANGED <<arg, ctx, last, stopped, pending, arrival>>

\* the mapping a handler at its save step hands to save_urls
SaveArg(p) ==
    IF pc[p] = "start_save" THEN [urls_data[p] EXCEPT ![arg[p]].monitoring = TRUE]
    ELSE IF pc[p] = "stop_save" THEN [urls_data[p] EXCEPT ![arg[p]].monitoring = FALSE]
    ELSE IF pc[p] = "add_save" THEN urls_data[p]
    ELSE Del(urls_data[p], arg[p])

\* (mutant) the live entry is stored before the registry is looked at
StartLoadUnchecked(p, t) ==
    /\ BagCardinality(workers) + StartsInFlight < MaxWorkers
    /\ LET d == load_urls(file) IN
         IF t \notin DOMAIN d
         THEN /\ init_pc = "done"
              /\ pc[p] = "idle"
              /\ Arrives(Request("start", t))
              /\ Respond(p, "start", t, ArrivalCtx(p, "start", t), "not_found")
              /\ ctx' = [q \in Threads |-> IF q = p THEN "none"
                                           ELSE Disturbed(q, "start", t, FALSE)]
              /\ active_monitors' =
                    Put(active_monitors, t, [active |-> TRUE, url |-> "", interval |-> DefaultInterval])
         ELSE /\ Begin(p, "start", t, "start_check")
              /\ urls_data' = [urls_data EXCEPT ![p] = d]
              /\ UNCHANGED active_monitors
    /\ UNCHANGED <<file, stop_event, workers, initvars, atexit_pc, auxvars>>

\* start_monitoring, lines 237-240: urls_data = load_urls();
\* if url_id not in urls_data: return 404
StartLoad(p, t) ==
    /\ BagCardinality(workers) + StartsInFlight < MaxWorkers
    /\ LET d == load_urls(file) IN
         IF t \notin DOMAIN d
         THEN /\ init_pc = "done"
              /\ pc[p] = "idle"
              /\ Arrives(Request("start", t))
              /\ Respond(p, "start", t, ArrivalCtx(p, "start", t), "not_found")
              /\ ctx' = [q \in Threads |-> IF q = p THEN "none"
                                           ELSE Disturbed(q, "start", t, FALSE)]
         ELSE /\ Begin(p, "start", t, "start_check")
              /\ urls_data' = [urls_data EXCEPT ![p] = d]
    /\ UNCHANGED <<shared, initvars, atexit_pc, auxvars>>

\* start_monitoring_thread, lines 119-120: if url_id in active_monitors:
\* return False, and start_monitoring answers 400
StartCheck(p) ==
    /\ pc[p] = "start_check"
    /\ IF arg[p] \in DOMAIN active_monitors
       THEN Return(p, "start", "already_active")
       ELSE Stay(p, "start_set") /\ UNCHANGED urls_data
    /\ UNCHANGED <<shared, initvars, atexit_pc, auxvars>>

\* lines 122-126: active_monitors[url_id] = {...}
StartSet(p) ==
    /\ pc[p] = "start_set"
    /\ active_monitors' = Put(active_monitors, arg[p], NewEntry(urls_data[p][arg[p]]))
    /\ Stay(p, "start_launch")
    /\ UNCHANGED <<file, stop_event, workers, initvars, urls_data, atexit_pc, auxvars>>

\* lines 128-134: thread.start(); return True
StartLaunch(p) ==
    /\ pc[p] = "start_launch"
    /\ workers' = Launched(NewWorker(arg[p], urls_data[p][arg[p]]))
    /\ Stay(p, "start_save")
    /\ UNCHANGED <<file, active_monitors, stop_event, initvars, urls_data, atexit_pc, auxvars>>

\* lines 245-252: urls_data[url_id]['monitoring'] = True; save_urls(urls_data);
\* return 200 (the value save_urls returns is not looked at)
StartSave(p) ==
    /\ pc[p] = "start_save"
    /\ \E ok \in BOOLEAN :
          /\ file' = save_urls(SaveArg(p), ok)
          /\ Return(p, "start", "started")
    /\ UNCHANGED <<active_monitors, stop_event, workers, initvars, atexit_pc, auxvars>>

\* stop_monitoring, line 265: if url_id in active_monitors:
StopCheck(p, t) ==
    /\ Begin(p, "stop", t,
             IF t \in DOMAIN active_monitors THEN "stop_del" ELSE "stop_load")
    /\ UNCHANGED <<shared, initvars, urls_data, atexit_pc, auxvars>>

\* line 266: del active_monitors[url_id]; a KeyError (the entry went away
\* since the check) is caught by the handler's except and answered 500
StopDel(p) ==
    /\ pc[p] = "stop_del"
    /\ IF arg[p] \in DOMAIN active_monitors
       THEN /\ active_monitors' = Del(active_monitors, arg[p])
            /\ Stay(p, "stop_load") /\ UNCHANGED urls_data
       ELSE /\ UNCHANGED active_monitors
            /\ Return(p, "stop", "internal_error")
    /\ UNCHANGED <<file, stop_event, workers, initvars, atexit_pc, auxvars>>

\* line 269: urls_data = load_urls(); line 270 with the id absent: return 200
StopLoad(p) ==
    /\ pc[p] = "stop_load"
    /\ LET d == load_urls(file) IN
         IF arg[p] \in DOMAIN d
         THEN /\ Stay(p, "stop_save")
              /\ urls_data' = [urls_data EXCEPT ![p] = d]
         ELSE Return(p, "stop", "stopped")
    /\ UNCHANGED <<shared, initvars, atexit_pc, auxvars>>

\* lines 271-277: urls_data[url_id]['monitoring'] = False; save_urls(urls_data);
\* return 200 (the value save_urls returns is not looked at)
StopSave(p) ==
    /\ pc[p] = "stop_save"
    /\ \E ok \in BOOLEAN :
          /\ file' = save_urls(SaveArg(p), ok)
          /\ Return(p, "stop", "stopped")
    /\ UNCHANGED <<active_monitors, stop_event, workers, initvars, atexit_pc, auxvars>>

\* delete_url, line 215: if url_id in active_monitors:
DeleteCheck(p, t) ==
    /\ Begin(p, "delete", t,
             IF t \in DOMAIN active_monitors THEN "delete_del" ELSE "delete_load")
    /\ UNCHANGED <<shared, initvars, urls_data, atexit_pc, auxvars>>

\* line 216: del active_monitors[url_id] (KeyError -> 500, as in stop)
DeleteDel(p) ==
    /\ pc[p] = "delete_del"
    /\ IF arg[p] \in DOMAIN active_monitors
       THEN /\ active_monitors' = Del(active_monitors, arg[p])
            /\ Stay(p, "delete_load") /\ UNCHANGED urls_data
       ELSE /\ UNCHANGED active_monitors
            /\ Return(p, "delete", "internal_error")
    /\ UNCHANGED <<file, stop_event, workers, initvars, atexit_pc, auxvars>>

\* lines 218-220, 226-227: urls_data = load_urls(); id absent: return 404
DeleteLoad(p) ==
    /\ pc[p] = "delete_load"
    /\ LET d == load_urls(file) IN
         IF arg[p] \in DOMAIN d
         THEN /\ Stay(p, "delete_save")
              /\ urls_data' = [urls_data EXCEPT ![p] = d]
         ELSE Return(p, "delete", "not_found")
    /\ UNCHANGED <<shared, initvars, atexit_pc, auxvars>>

\* lines 221-225: del urls_data[url_id]; 200 if save_urls(urls_data) else 500
DeleteSave(p) ==
    /\ pc[p] = "delete_save"
    /\ \E ok \in BOOLEAN :
          /\ file' = save_urls(SaveArg(p), ok)
          /\ Return(p, "delete", IF ok THEN "deleted" ELSE "save_failed")
    /\ UNCHANGED <<active_monitors, stop_event, workers, initvars, atexit_pc, auxvars>>

\* ------------------------------------------------------------------ add_url
\* The 'interval' of a request body is a JSON value: an integer val, the
\* fraction val + 0.5 ("float"), a string that spells the integer val
\* ("numstr"), any other string ("text"), null, or no such key ("absent").
MinInterval == 1
MaxInterval == 1440
\* data.get('interval', 5), and the interval used when int() raises
AddDefaultInterval == 5

\* int(interval): truncation toward zero; raises for null and for text
IntRaises(v) == v.kind \in {"text", "null"}
IntOf(v) ==
    IF v.kind = "float" THEN (IF v.val >= 0 THEN v.val ELSE v.val + 1) ELSE v.val

\* lines 160, 168-176: the interval add_url stores
AddInterval(v) ==
    IF v.kind = "absent" THEN AddDefaultInterval
    ELSE IF IntRaises(v) THEN AddDefaultInterval
    ELSE IF IntOf(v) < MinInterval THEN MinInterval
    ELSE IF IntOf(v) > MaxInterval THEN MaxInterval
    ELSE IntOf(v)

\* data.get('url', '').strip()
Strip(u) == IF u = " http://a " THEN "http://a" ELSE u

\* is_valid_url: scheme http or https, and a host
ValidUrls == {"http://a", "http://b", "http://c"}
is_valid_url(u) == u \in ValidUrls

\* url_id = f"url_{int(time.time())}_{len(urls_data)}"
UrlId(t, n) == "url_" \o ToString(t) \o "_" \o ToString(n)

\* An add request: arg is the 'url' of the body, "none" when there is no body.
AddRequest(u, v) == [op |-> "add", arg |-> u, interval |-> v]

\* A request answered in the step that picks it up.
Answer(p, o, t, r) ==
    /\ Respond(p, o, t, ArrivalCtx(p, o, t), r)
    /\ ctx' = [q \in Threads |-> IF q = p THEN "none" ELSE Disturbed(q, o, t, FALSE)]

\* lines 155-183: the body is validated, urls_data = load_urls(), and a
\* record with the same url answers 400
AddLoad(p, r) ==
    /\ init_pc = "done"
    /\ pc[p] = "idle"
    /\ r.op = "add"
    /\ Arrives(r)
    /\ LET url == Strip(r.arg)
           d == load_urls(file)
       IN IF r.arg = "none" THEN Answer(p, "add", r.arg, "no_data")
          ELSE IF url = "" THEN Answer(p, "add", url, "url_required")
          ELSE IF ~is_valid_url(url) THEN Answer(p, "add", url, "invalid_url")
          ELSE IF \E k \in DOMAIN d : d[k].url = url
               THEN Answer(p, "add", url, "exists")
          ELSE /\ pc' = [pc EXCEPT ![p] = "add_id"]
               /\ arg' = [arg EXCEPT ![p] = "new"]
               /\ ctx' = [q \in Threads |-> IF q = p THEN ArrivalCtx(p, "add", url)
                                            ELSE Disturbed(q, "add", url, TRUE)]
               /\ urls_data' = [urls_data EXCEPT ![p] =
                     Put(d, "new", [id |-> "new", url |-> url,
                                    interval |-> AddInterval(r.interval),
                                    monitoring |-> FALSE])]
               /\ UNCHANGED <<last, stopped, arrival>>
    /\ UNCHANGED <<shared, initvars, atexit_pc, auxvars>>

\* lines 186-194: the id is made of the clock and the number of records
\* loaded, and the record is stored under it (replacing what is there)
AddId(p) ==
    /\ pc[p] = "add_id"
    /\ LET d == Del(urls_data[p], "new")
           url_id == UrlId(now, Cardinality(DOMAIN d))
       IN /\ arg' = [arg EXCEPT ![p] = url_id]
          /\ urls_data' = [urls_data EXCEPT ![p] =
                Put(d, url_id, [urls_data[p]["new"] EXCEPT !.id = url_id])]
    /\ pc' = [pc EXCEPT ![p] = "add_save"]
    /\ UNCHANGED <<ctx, last, stopped, pending, arrival>>
    /\ UNCHANGED <<shared, initvars, atexit_pc, auxvars>>

\* lines 196-204: 201 if save_urls(urls_data) else 500
AddSave(p) ==
    /\ pc[p] = "add_save"
    /\ \E ok \in BOOLEAN :
          /\ file' = save_urls(SaveArg(p), ok)
          /\ Return(p, "add", IF ok THEN "added" ELSE "save_failed")
    /\ UNCHANGED <<active_monitors, stop_event, workers, initvars, atexit_pc, auxvars>>

\* the clock moves on to the next second
Tick ==
    /\ now < MaxClock
    /\ now' = now + 1
    /\ UNCHANGED <<shared, initvars, reqvars, atexit_pc, probe_log, roundtrip,
                   api_file, api_req>>

\* ------------------------------------------------------ stop_all_monitors
\* Registered with atexit by initialize_app; it runs once, while the daemon
\* threads (request threads and workers) are still running.
\* line 113: stop_event.set()
StopAllSet ==
    /\ init_pc = "done"
    /\ atexit_pc = "idle"
    /\ stop_event' = TRUE
    /\ atexit_pc' = "clear"
    /\ ctx' = [q \in Threads |-> Disturbed(q, "stop_all", "none", TRUE)]
    /\ UNCHANGED <<file, active_monitors, workers, initvars, pc, arg, urls_data,
                   last, stopped, pending, arrival, auxvars>>

\* line 114: active_monitors.clear()
StopAllClear ==
    /\ atexit_pc = "clear"
    /\ active_monitors' = EmptyDict
    /\ atexit_pc' = "sleep"
    /\ UNCHANGED <<file, stop_event, workers, initvars, reqvars, auxvars>>

\* line 115: time.sleep(1), then the function returns
StopAllReturn ==
    /\ atexit_pc = "sleep"
    /\ atexit_pc' = "done"
    /\ UNCHANGED <<shared, initvars, reqvars, auxvars>>

\* ----------------------------------------------------------- specification
\* Raw contents urls.json can have for one id when the process starts: records
\* written by save_urls, records of an older layout, and a value that is not
\* an object.
RawRecords(t) ==
    { [id |-> t, url |-> UrlOf[t], interval |-> 1, monitoring |-> TRUE],
      [id |-> t, url |-> UrlOf[t], interval |-> 1, monitoring |-> FALSE],
      [url |-> UrlOf[t], interval |-> 1, monitoring |-> TRUE, name |-> "n"],
      [url |-> UrlOf[t], interval |-> 1],
      [scalar |-> 0] }

AllRawRecords == UNION {RawRecords(t) : t \in Ids}

FilesOver(S) ==
    { [state |-> "ok", data |-> d] :
        d \in {f \in [S -> AllRawRecords] : \A t \in S : f[t] \in RawRecords(t)} }

\* every urls.json over Ids, a missing file and an unparsable one
InitFiles ==
    { [state |-> "missing", data |-> EmptyDict],
      [state |-> "corrupt", data |-> EmptyDict] }
    \cup UNION {FilesOver(S) : S \in SUBSET Ids}

\* the registries the concurrent runs start from: "u2" is an id no record
\* has, "u1" is registered (monitored or not) or absent
RaceFiles ==
    { [state |-> "ok", data |-> EmptyDict] }
    \cup { f \in FilesOver({"u1"}) : DOMAIN f.data["u1"] = {"id", "url", "interval", "monitoring"} }

\* the clock has not been read, no round trip is exercised and the API
\* variant is not deployed
NoRoundTrip == [pc |-> "off", first |-> EmptyDict, second |-> EmptyDict]
NoApiFile == [state |-> "missing", data |-> EmptyDict]
NoApiRequest == [pc |-> "off", data |-> EmptyDict, id |-> "none", result |-> "none"]

EnvIdle ==
    /\ now = 0
    /\ roundtrip = NoRoundTrip
    /\ api_file = NoApiFile
    /\ api_req = NoApiRequest

\* the process has been started and initialize_app has not run yet
Fresh ==
    /\ active_monitors = EmptyDict
    /\ stop_event = FALSE
    /\ workers = EmptyBag
    /\ init_pc = "load"
    /\ init_data = EmptyDict
    /\ init_todo = {}
    /\ pc = [p \in Threads |-> "idle"]
    /\ arg = [p \in Threads |-> "none"]
    /\ ctx = [p \in Threads |-> "none"]
    /\ urls_data = [p \in Threads |-> EmptyDict]
    /\ atexit_pc = "idle"
    /\ last = NoResponse
    /\ stopped = [t \in RequestIds |-> "no"]
    /\ arrival = [p \in Threads |-> "none"]

InitRest ==
    /\ Fresh
    /\ pending = {AnyRequest}
    /\ probe_log = EmptyDict
    /\ EnvIdle

Init == file \in RaceFiles /\ InitRest

InitRestore == file \in InitFiles /\ InitRest

Worker ==
    \E w \in BagToSet(workers) : WorkerLoop(w) \/ WorkerProbe(w) \/ WorkerWait(w)

Initialize == InitLoad \/ InitStep \/ InitDone

Handler ==
    \E p \in Threads :
       \/ \E t \in RequestIds : StartLoad(p, t) \/ StopCheck(p, t) \/ DeleteCheck(p, t)
       \/ StartCheck(p) \/ StartSet(p) \/ StartLaunch(p) \/ StartSave(p)
       \/ StopDel(p) \/ StopLoad(p) \/ StopSave(p)
       \/ DeleteDel(p) \/ DeleteLoad(p) \/ DeleteSave(p)

StopAll == StopAllSet \/ StopAllClear \/ StopAllReturn

Next == Initialize \/ Worker \/ Handler \/ StopAll

\* the server: start-up, then concurrent requests, workers and the exit hook
Spec == Init /\ [][Next]_vars

\* the states a worker of a requested id can be in
WorkerStates ==
    [url_id : RequestIds, url : {UrlOf[t] : t \in RequestIds}, interval : {1},
     pc : {"loop", "probe", "wait"}, left : 0..WaitSlices(1), seen : {FALSE}]

\* Scheduling: every thread that can take a step eventually takes one
\* (workers, handlers past the arrival of their request, the exit hook once
\* it has begun, start-up). Requests and process exit need not arrive.
Fairness ==
    /\ \A w \in WorkerStates :
          WF_vars(WorkerLoop(w) \/ WorkerProbe(w) \/ WorkerWait(w))
    /\ \A p \in Threads :
          WF_vars(\/ StartCheck(p) \/ StartSet(p) \/ StartLaunch(p) \/ StartSave(p)
                  \/ StopDel(p) \/ StopLoad(p) \/ StopSave(p)
                  \/ DeleteDel(p) \/ DeleteLoad(p) \/ DeleteSave(p))
    /\ WF_vars(StopAllClear \/ StopAllReturn)
    /\ WF_vars(Initialize)

SpecLive == Init /\ [][Next]_vars /\ Fairness

\* start-up alone, from any urls.json
NextRestore == Initialize \/ Worker

SpecRestore == InitRestore /\ [][NextRestore]_vars

\* ------------------------------------------------------ observed workers
\* The server with the probes of the requested ids under observation, for
\* clients that send one start, one stop and one delete, in any order and
\* overlapping or not.
ProbeWorkload ==
    {Request(o, t) : o \in {"start", "stop", "delete"}, t \in RequestIds}

InitProbe ==
    /\ file \in RaceFiles
    /\ Fresh
    /\ pending = ProbeWorkload
    /\ probe_log = [t \in RequestIds |-> "none"]
    /\ EnvIdle

SpecProbe == InitProbe /\ [][Next]_vars

\* --------------------------------------------------- load / save / load
\* json.load and json.dump keep string keys and str, int and bool values as
\* they are; what changes a registry on its way through load_urls and
\* save_urls is the cleaning both of them do.
\* urls_data = load_urls()
RoundTripLoad ==
    /\ roundtrip.pc = "load"
    /\ roundtrip' = [roundtrip EXCEPT !.pc = "save", !.first = load_urls(file)]
    /\ UNCHANGED <<shared, initvars, reqvars, atexit_pc, now, probe_log, api_file, api_req>>

\* save_urls(urls_data)
RoundTripSave ==
    /\ roundtrip.pc = "save"
    /\ \E ok \in BOOLEAN : file' = save_urls(roundtrip.first, ok)
    /\ roundtrip' = [roundtrip EXCEPT !.pc = "reload"]
    /\ UNCHANGED <<active_monitors, stop_event, workers, initvars, reqvars,
                   atexit_pc, now, probe_log, api_file, api_req>>

\* load_urls() again
RoundTripReload ==
    /\ roundtrip.pc = "reload"
    /\ roundtrip' = [roundtrip EXCEPT !.pc = "done", !.second = load_urls(file)]
    /\ UNCHANGED <<shared, initvars, reqvars, atexit_pc, now, probe_log, api_file, api_req>>

InitRoundTrip ==
    /\ file \in InitFiles
    /\ Fresh
    /\ pending = {}
    /\ probe_log = EmptyDict
    /\ now = 0
    /\ roundtrip = [NoRoundTrip EXCEPT !.pc = "load"]
    /\ api_file = NoApiFile
    /\ api_req = NoApiRequest

NextRoundTrip == RoundTripLoad \/ RoundTripSave \/ RoundTripReload

\* load_urls, save_urls of the result, load_urls again, on any urls.json
SpecRoundTrip == InitRoundTrip /\ [][NextRoundTrip]_vars

\* ------------------------------------------------- registration (add_url)
\* the server is up on an empty registry: initialize_app has returned, no
\* monitor is live and no request is being served
ServerUp ==
    /\ active_monitors = EmptyDict
    /\ stop_event = FALSE
    /\ workers = EmptyBag
    /\ init_pc = "done"
    /\ init_data = EmptyDict
    /\ init_todo = {}
    /\ pc = [p \in Threads |-> "idle"]
    /\ arg = [p \in Threads |-> "none"]
    /\ ctx = [p \in Threads |-> "none"]
    /\ urls_data = [p \in Threads |-> EmptyDict]
    /\ atexit_pc = "idle"
    /\ last = NoResponse
    /\ stopped = [t \in RequestIds |-> "no"]
    /\ arrival = [p \in Threads |-> "none"]

\* JSON values a client can send as 'interval'
IntervalInputs ==
    { NoInterval, [kind |-> "null", val |-> 0], [kind |-> "text", val |-> 0],
      [kind |-> "numstr", val |-> 7] }
    \cup { [kind |-> "int", val |-> n] :
             n \in {-1, 0, 1, 7, 60, 61, MaxInterval, MaxInterval + 1} }
    \cup { [kind |-> "float", val |-> n] : n \in {-1, 0, 2, MaxInterval} }

\* The clients' workloads: three registrations and the deletion of the first
\* id; the same url registered twice, next to bodies that are refused; one
\* registration for every interval value.
AddWorkloads ==
    { { AddRequest("http://a", NoInterval), AddRequest("http://b", NoInterval),
        AddRequest("http://c", NoInterval), Request("delete", UrlId(0, 0)) },
      { AddRequest("http://a", NoInterval), AddRequest(" http://a ", NoInterval),
        AddRequest("", NoInterval), AddRequest("ftp://a", NoInterval),
        AddRequest("none", NoInterval) } }
    \cup { {AddRequest("http://a", v)} : v \in IntervalInputs }

InitAdd ==
    /\ file = [state |-> "ok", data |-> EmptyDict]
    /\ ServerUp
    /\ pending \in AddWorkloads
    /\ probe_log = EmptyDict
    /\ EnvIdle

Registration ==
    \E p \in Threads :
       \/ \E r \in pending : AddLoad(p, r)
       \/ AddId(p) \/ AddSave(p)

Deletion ==
    \E p \in Threads :
       \/ \E r \in pending : r.op = "delete" /\ DeleteCheck(p, r.arg)
       \/ DeleteLoad(p) \/ DeleteSave(p)

NextAdd == Registration \/ Deletion \/ Tick

\* registrations and deletions served concurrently while the clock runs
SpecAdd == InitAdd /\ [][NextAdd]_vars

\* ------------------------------------------ the API variant (API/index.py)
\* A second deployment of the service with its own urls.json, which it
\* neither cleans nor monitors. Time stamps (created_at, last_check.timestamp)
\* and response times are left out of its records.
ApiMaxInterval == 60
ApiDefaultInterval == 5
\* ids uuid.uuid4() can return
Uuids == {"uuid1", "uuid2", "uuid3"}

\* load_urls of API/index.py: the parsed file as it is; {} when json.load
\* raises; sample data, saved if the write succeeds, when there is no file
create_sample_data ==
    [sample1 |-> [id |-> "sample1_id", name |-> "Google", url |-> "https://www.google.com",
                  interval |-> [kind |-> "int", val |-> 5], monitoring |-> TRUE,
                  last_check |-> "up"],
     sample2 |-> [id |-> "sample2_id", name |-> "GitHub", url |-> "https://github.com",
                  interval |-> [kind |-> "int", val |-> 10], monitoring |-> FALSE,
                  last_check |-> "up"]]

api_load_urls(f) ==
    IF f.state = "ok" THEN f.data
    ELSE IF f.state = "missing" THEN create_sample_data
    ELSE EmptyDict

\* lines 147-150: comparing a string or null with 1 raises TypeError
ApiIntervalRaises(v) == v.kind \in {"numstr", "text", "null"}

\* lines 138, 147-150: below 1 becomes 1, above 60 becomes 60, anything
\* else (a fraction included) is kept as it came
ApiInterval(v) ==
    IF v.kind = "absent" THEN [kind |-> "int", val |-> ApiDefaultInterval]
    ELSE IF v.val < 1 THEN [kind |-> "int", val |-> 1]
    ELSE IF v.val > ApiMaxInterval \/ (v.kind = "float" /\ v.val = ApiMaxInterval)
         THEN [kind |-> "int", val |-> ApiMaxInterval]
    ELSE v

\* is_valid_url of API/index.py: any scheme, and a host
api_is_valid_url(u) == u \in ValidUrls \cup {"ftp://a"}

\* check_url_status: 'up' below status 400, 'down' otherwise and on any exception
StatusInfos == {"up", "down"}

ApiAnswer(r) == api_req' = [pc |-> "idle", data |-> EmptyDict, id |-> "none", result |-> r]

\* add_url of API/index.py, lines 133-168
ApiAddLoad(r) ==
    /\ api_req.pc = "idle"
    /\ r.op = "add"
    /\ Arrives(r)
    /\ LET url == Strip(r.arg) IN
         IF r.arg = "none" THEN ApiAnswer("no_data") /\ UNCHANGED api_file
         ELSE IF url = "" THEN ApiAnswer("url_required") /\ UNCHANGED api_file
         ELSE IF ~api_is_valid_url(url) THEN ApiAnswer("invalid_url") /\ UNCHANGED api_file
         ELSE IF ApiIntervalRaises(r.interval)
              THEN ApiAnswer("internal_error") /\ UNCHANGED api_file
         ELSE /\ \E ok \in BOOLEAN :
                    api_file' = IF api_file.state = "missing" /\ ok
                                THEN [state |-> "ok", data |-> create_sample_data]
                                ELSE api_file
              /\ \E url_id \in Uuids \ DOMAIN api_load_urls(api_file),
                     status_info \in StatusInfos :
                    api_req' = [pc |-> "save", id |-> url_id, result |-> "none",
                                data |-> Put(api_load_urls(api_file), url_id,
                                    [id |-> url_id, name |-> url, url |-> url,
                                     interval |-> ApiInterval(r.interval),
                                     monitoring |-> FALSE,
                                     last_check |-> status_info])]
    /\ UNCHANGED <<shared, initvars, atexit_pc, pc, arg, ctx, urls_data, last,
                   stopped, arrival, now, probe_log, roundtrip>>

\* lines 170-176: 201 if save_urls(urls_data) else 500
ApiAddSave ==
    /\ api_req.pc = "save"
    /\ \E ok \in BOOLEAN :
          /\ api_file' = IF ok THEN [state |-> "ok", data |-> api_req.data] ELSE api_file
          /\ ApiAnswer(IF ok THEN "added" ELSE "save_failed")
    /\ UNCHANGED <<shared, initvars, atexit_pc, reqvars, now, probe_log, roundtrip>>

\* The clients' workloads: the same url twice and a third one, next to
\* bodies that are refused; one registration for every interval value.
ApiWorkloads ==
    { { AddRequest("http://a", NoInterval), AddRequest(" http://a ", NoInterval),
        AddRequest("http://b", NoInterval) },
      { AddRequest("ftp://a", NoInterval), AddRequest("", NoInterval),
        AddRequest("none", NoInterval), AddRequest("x", NoInterval) } }
    \cup { {AddRequest("http://a", v)} : v \in IntervalInputs }

InitApi ==
    /\ file = [state |-> "ok", data |-> EmptyDict]
    /\ ServerUp
    /\ pending \in ApiWorkloads
    /\ probe_log = EmptyDict
    /\ now = 0
    /\ roundtrip = NoRoundTrip
    /\ api_file \in { NoApiFile, [state |-> "corrupt", data |-> EmptyDict],
                      [state |-> "ok", data |-> EmptyDict] }
    /\ api_req = [NoApiRequest EXCEPT !.pc = "idle"]

NextApi == (\E r \in pending : ApiAddLoad(r)) \/ ApiAddSave

\* registrations served by API/index.py
SpecApi == InitApi /\ [][NextApi]_vars

\* ------------------------------------------------ requests on two targets
\* The server with two registered targets, for clients that send one request
\* for "u1" (a start, a stop or a delete) or a registration, and one request
\* for "u2", in either order and overlapping or not.
FrameWorkloads ==
    { {a, b} :
        a \in {Request(o, "u1") : o \in {"start", "stop", "delete"}}
              \cup {AddRequest("http://c", NoInterval)},
        b \in {Request(o, "u2") : o \in {"start", "stop", "delete"}} }

FrameFiles ==
    { f \in FilesOver(Ids) :
        \A t \in Ids : DOMAIN f.data[t] = {"id", "url", "interval", "monitoring"} }

InitFrame ==
    /\ file \in FrameFiles
    /\ Fresh
    /\ pending \in FrameWorkloads
    /\ probe_log = EmptyDict
    /\ EnvIdle

\* a request thread picks up one of the requests the clients send
Dispatch ==
    \E p \in Threads, r \in pending :
       \/ r.op = "start" /\ StartLoad(p, r.arg)
       \/ r.op = "stop" /\ StopCheck(p, r.arg)
       \/ r.op = "delete" /\ DeleteCheck(p, r.arg)
       \/ AddLoad(p, r)

\* a request thread goes on with the request it serves
Continue ==
    \E p \in Threads :
       \/ StartCheck(p) \/ StartSet(p) \/ StartLaunch(p) \/ StartSave(p)
       \/ StopDel(p) \/ StopLoad(p) \/ StopSave(p)
       \/ DeleteDel(p) \/ DeleteLoad(p) \/ DeleteSave(p)
       \/ AddId(p) \/ AddSave(p)

NextFrame == Initialize \/ Worker \/ Dispatch \/ Continue

SpecFrame == InitFrame /\ [][NextFrame]_vars

\* ------------------------------------------------------------------ claims
\* the registry as every handler reads it
Registry == load_urls(file)

\* the persisted record of t has its monitoring flag set (read off the raw file)
MonitoringIn(f, t) ==
    /\ f.state = "ok"
    /\ t \in DOMAIN f.data
    /\ "monitoring" \in DOMAIN f.data[t]
    /\ f.data[t].monitoring = TRUE

PersistedMonitoring(t) == MonitoringIn(file, t)

\* no start, stop, delete, stop-all or restore call is in progress
Quiescent ==
    /\ init_pc = "done"
    /\ \A p \in Threads : pc[p] = "idle"
    /\ atexit_pc \in {"idle", "done"}

\* C1: whenever no start, stop, delete, stop-all or restore call is in
\* progress, every registered target has persisted monitoring == true if and
\* only if its id is in active_monitors.
C1_FlagIffLiveEntry ==
    Quiescent =>
       \A t \in DOMAIN Registry :
          (Registry[t].monitoring = TRUE) <=> (t \in DOMAIN active_monitors)

\* C2: for any number of start calls on one id, overlapping or not, at most
\* one ping_worker thread for that id is running, and a start that finds the
\* id in active_monitors answers 'already active' and adds no thread.
C2_AtMostOneWorker ==
    \A t \in Ids : WorkersOf(t) <= 1

\* C3: after stop(T) followed immediately by start(T) on a registered target
\* (nothing else served in between, no exit hook), exactly one worker runs
\* for T.
C3_RestartLeavesOneWorker ==
    (/\ last.op = "start" /\ last.result = "started" /\ last.ctx = "after_stop"
     /\ Quiescent /\ atexit_pc = "idle")
    => WorkersOf(last.arg) = 1

\* C5: once delete(T) has answered success, T is neither in the registry nor
\* in active_monitors (so no worker's loop test lets it probe T), also when
\* the delete overlapped a start(T) that had already read the registry.
C5_DeletedStaysGone ==
    (last.op = "delete" /\ last.result = "deleted")
    => (last.arg \notin DOMAIN Registry /\ last.arg \notin DOMAIN active_monitors)

\* C6: once stop_all_monitors has returned, active_monitors is empty, also
\* when a start overlapped it.
C6_StopAllLeavesNoEntry ==
    atexit_pc = "done" => DOMAIN active_monitors = {}

\* C10: when save_urls fails in start, stop or delete (the file is not what
\* the handler meant to write), the handler answers with a failure, or memory
\* is left agreeing with the persisted registry (the id is in active_monitors
\* exactly if its persisted record is monitored).
FailureResults == {"save_failed", "internal_error"}
SaveLabels == {"start_save", "stop_save", "delete_save"}

SaveFailed(p) ==
    pc[p] \in SaveLabels /\ pc'[p] = "idle" /\ file' # SavedFile(SaveArg(p))

C10_SaveFailureSurfaced ==
    [][\A p \in Threads :
          SaveFailed(p)
          => \/ last'.result \in FailureResults
             \/ (arg[p] \in DOMAIN active_monitors') <=> MonitoringIn(file', arg[p])]_vars

\* C9: a stop served alone on a registered target ends with the id out of
\* active_monitors and persisted monitoring == false, and a second stop
\* right after it answers the same and changes neither the registry file nor
\* active_monitors.
StopIsDone ==
    (/\ last.op = "stop" /\ last.result = "stopped"
     /\ last.ctx \in {"alone", "after_stop"}
     /\ Quiescent /\ atexit_pc = "idle"
     /\ last.arg \in DOMAIN Registry)
    => (/\ last.arg \notin DOMAIN active_monitors
        /\ Registry[last.arg].monitoring = FALSE)

SecondStopChangesNothing ==
    \A p \in Threads :
       (ctx[p] = "after_stop" /\ pc[p] \in StopLabels /\ pc'[p] # pc[p])
       => /\ UNCHANGED <<file, active_monitors>>
          /\ pc'[p] = "idle" => last'.result = "stopped"

C9_StopIdempotent == [][StopIsDone' /\ SecondStopChangesNothing]_vars

\* C8: a start whose id is not in the registry answers not-found and leaves
\* the registry file, active_monitors, the stop event and the worker threads
\* as they were; a start is only carried on with for a registered id.
StartNotFoundServed ==
    last' # last /\ last'.op = "start" /\ last'.result = "not_found"

StartCarriedOn(p) == pc[p] = "idle" /\ pc'[p] = "start_check"

C8_StartUnknownId ==
    [][/\ StartNotFoundServed =>
            (last'.arg \notin DOMAIN Registry /\ UNCHANGED shared)
       /\ \A p \in Threads :
            StartCarriedOn(p) => arg'[p] \in DOMAIN Registry]_vars

\* a start of an absent id has been answered not-found while a worker runs
C8_Witness ==
    /\ last.op = "start" /\ last.result = "not_found"
    /\ last.arg \notin DOMAIN Registry
    /\ workers # EmptyBag

\* C7: when initialize_app has completed, active_monitors holds exactly the
\* ids whose persisted monitoring flag is true, one worker thread runs for
\* each of them and none for any other id.
C7_RestoreMatchesFlags ==
    init_pc = "done" =>
       /\ DOMAIN active_monitors = {t \in Ids : PersistedMonitoring(t)}
       /\ \A t \in Ids :
             WorkersOf(t) = IF PersistedMonitoring(t) THEN 1 ELSE 0

\* start-up has completed on a file with a monitored and an unmonitored target
C7_Witness ==
    /\ init_pc = "done"
    /\ \E t \in Ids : PersistedMonitoring(t)
    /\ \E t \in Ids : t \in DOMAIN Registry /\ ~PersistedMonitoring(t)

C11_AddedIdIsFresh ==
    [][\A p \in Threads :
          ctx[p] = "alone" =>
             /\ (pc[p] = "add_id" /\ pc'[p] = "add_save")
                   => arg'[p] \notin DOMAIN Registry
             /\ (pc[p] = "add_save" /\ pc'[p] = "idle" /\ last'.result = "added")
                   => arg[p] \notin DOMAIN Registry]_vars

\* the urls of the records of a registry are pairwise different
NoDuplicateUrl(d) ==
    \A k1, k2 \in DOMAIN d : d[k1].url = d[k2].url => k1 = k2

\* the registry of the API variant as its handlers read it
ApiRegistry == IF api_file.state = "ok" THEN api_file.data ELSE EmptyDict

\* C12: after any sequence or interleaving of add_url calls, no two registry
\* records have the same url.
C12_NoDuplicateUrl ==
    NoDuplicateUrl(Registry) /\ NoDuplicateUrl(ApiRegistry)

\* C13: every target created by add_url has an integer interval within
\* [1, 1440]: a requested interval below 1 is stored as 1, one above 1440 as
\* 1440, and one inside the range is stored unchanged.
\* v is the requested JSON value, i the stored one.
IntervalStoredAsClaimed(v, i) ==
    /\ i.kind = "int"
    /\ MinInterval <= i.val /\ i.val <= MaxInterval
    /\ v.kind \in {"int", "float"} =>
          /\ v.val < MinInterval => i.val = MinInterval
          /\ (v.val > MaxInterval \/ (v.kind = "float" /\ v.val = MaxInterval))
                => i.val = MaxInterval
    /\ (v.kind = "int" /\ MinInterval <= v.val /\ v.val <= MaxInterval)
          => i.val = v.val

C13_IntervalClamped ==
    [][\A r \in pending \ pending' :
          /\ (api_req.pc = "idle" /\ api_req'.pc = "save")
                => IntervalStoredAsClaimed(r.interval,
                                           api_req'.data[api_req'.id].interval)
          /\ \A p \in Threads :
                (pc[p] = "idle" /\ pc'[p] = "add_id")
                => IntervalStoredAsClaimed(r.interval,
                      [kind |-> "int", val |-> urls_data'[p]["new"].interval])]_vars

\* a thread that was in state w has taken a step
Left(w) == CopiesIn(w, workers') < CopiesIn(w, workers)

FailedOutcomes == {"request_exception", "exception"}

\* C14: a probe that fails (timeout, transport error, any other exception)
\* neither ends the worker nor touches the handlers: the worker goes on to
\* its interval wait, and while it is not cancelled it waits the slices out,
\* passes the loop test and probes again.
C14_ProbeFailureAbsorbed ==
    [][\A w \in BagToSet(workers) :
          /\ (w.pc = "probe" /\ Left(w) /\ probe_log'[w.url_id] \in FailedOutcomes)
                => /\ workers' = Moves(w, [w EXCEPT !.pc = "wait",
                                                     !.left = WaitSlices(w.interval)])
                   /\ UNCHANGED <<file, active_monitors, stop_event, reqvars, atexit_pc>>
          /\ (w.pc = "wait" /\ Left(w) /\ ~Cancelled(w))
                => workers' = Moves(w, IF w.left = 0 THEN [w EXCEPT !.pc = "loop"]
                                       ELSE [w EXCEPT !.left = w.left - 1])
          /\ (w.pc = "loop" /\ Left(w) /\ ~Cancelled(w))
                => workers' = Moves(w, [w EXCEPT !.pc = "probe"])]_vars

\* after a failed probe the one worker of a target is about to probe again
C14_Witness ==
    \E w \in BagToSet(workers) :
       /\ w.pc = "probe"
       /\ probe_log[w.url_id] \in FailedOutcomes
       /\ WorkersOf(w.url_id) = 1

\* get_urls: the registry with is_active added to every record
get_urls ==
    [t \in DOMAIN Registry |->
        [id |-> Registry[t].id, url |-> Registry[t].url,
         interval |-> Registry[t].interval, monitoring |-> Registry[t].monitoring,
         is_active |-> t \in DOMAIN active_monitors]]

\* C15: once a probe of T has completed (a worker started by start(T) probes
\* before it waits), its result is recorded under T: the status lookup for T
\* returns the most recent result.
C15_ProbeResultRecorded ==
    \A t \in DOMAIN probe_log :
       (probe_log[t] # "none" /\ t \in DOMAIN get_urls)
       => /\ "last_check" \in DOMAIN get_urls[t]
          /\ get_urls[t].last_check = probe_log[t]

\* C19: a worker looks at its cancellation condition in every slice of the
\* wait (a cancelled worker leaves the wait at the slice it is in), and a
\* worker that has seen itself cancelled never probes again.
C19_NoProbeAfterCancelSeen ==
    [][/\ \A w \in BagToSet(workers) :
             (w.pc = "wait" /\ w.left > 0 /\ Left(w) /\ Cancelled(w))
             => \E b \in BOOLEAN :
                   workers' = Moves(w, [w EXCEPT !.pc = "loop", !.left = 0, !.seen = b])
       /\ \A w \in BagToSet(workers') : w.seen => w.pc = "loop"]_vars

\* a probe is performed: a thread leaves line 87
ProbePerformed == \E w \in BagToSet(workers) : w.pc = "probe" /\ Left(w)

\* C20 as stated: stop_event is never cleared and, once stop_all_monitors
\* has set it, no probe is performed any more.
C20_NoProbeAfterStopAll ==
    [][stop_event => (stop_event' /\ ~ProbePerformed)]_vars

\* C20 amended: stop_event is never cleared and, once it is set, no worker
\* passes its loop test: a worker at the test (one launched by a later start
\* included) exits without probing and leaves active_monitors as it is.
C20_NoProbeBegunAfterStopAll ==
    [][stop_event =>
          /\ stop_event'
          /\ \A w \in BagToSet(workers) :
                (w.pc = "loop" /\ Left(w))
                => (workers' = Exits(w) /\ UNCHANGED active_monitors)]_vars

\* stop_all_monitors has returned, a start served after its clear() has
\* answered 200, its worker is gone and its id is still in active_monitors
C20_Witness ==
    /\ atexit_pc = "done"
    /\ last.op = "start" /\ last.result = "started"
    /\ last.arg \in DOMAIN active_monitors
    /\ WorkersOf(last.arg) = 0

RecordIn(f, t) == {load_urls(f)[x] : x \in {t} \cap DOMAIN load_urls(f)}

WriteLabels == {"start_save", "stop_save", "delete_save", "add_save"}

\* C17: a start, stop, delete or add for one target never changes or loses
\* the registry record of a different target, under any interleaving: the
\* step in which a handler writes urls.json leaves the record (existence,
\* url, interval, monitoring) of every other id as it was.
C17_OtherRecordsKept ==
    [][\A p \in Threads :
          (pc[p] \in WriteLabels /\ pc'[p] = "idle")
          => \A t \in Ids \ {arg[p]} : RecordIn(file', t) = RecordIn(file, t)]_vars

\* the clients have sent their start and their stop of t and nothing else,
\* the two requests overlapped, both have been answered and the exit hook has
\* not run
StartStopOverlapped(t) ==
    /\ pending = {Request("delete", t)}
    /\ Quiescent /\ atexit_pc = "idle"
    /\ last.ctx \in {"overlapped", "raced"}

\* C18: after overlapping start(T) and stop(T), the membership of T in
\* active_monitors, its workers and its persisted monitoring flag are those
\* of start-then-stop (out, flag false) or of stop-then-start (in, a worker
\* running, flag true). Stated for the step that answers the second of the
\* two requests, when the write it makes to urls.json succeeds.
StartStopSerialized(t) ==
    \/ (t \notin DOMAIN active_monitors /\ ~PersistedMonitoring(t))
    \/ (t \in DOMAIN active_monitors /\ PersistedMonitoring(t) /\ WorkersOf(t) >= 1)

C18_StartStopSerialize ==
    [][\A p \in Threads : \A t \in RequestIds :
          (/\ arg[p] = t
           /\ pc[p] # "idle" /\ pc'[p] = "idle"
           /\ pc[p] \in SaveLabels => file' = SavedFile(SaveArg(p))
           /\ StartStopOverlapped(t)' /\ t \in DOMAIN Registry')
          => StartStopSerialized(t)']_vars

\* C21: a stop for an id that has no record in the registry when the request
\* arrives answers 'Monitoring stopped', and no step of it writes urls.json:
\* no record is created for the id and every record stays as it was.
StopOfUnregistered(p, t) ==
    /\ arg'[p] = t \/ arg[p] = t
    /\ arrival'[p] = "absent" \/ arrival[p] = "absent"
    /\ pc'[p] # pc[p]

C21_StopUnregisteredKeepsRegistry ==
    [][\A p \in Threads : \A t \in RequestIds :
          StopOfUnregistered(p, t)
          => /\ file' = file
             /\ pc'[p] = "idle" => (last'.op = "stop" /\ last'.arg = t /\ last'.result = "stopped")]_vars

====
